---------------------------- MODULE Spec2Model ----------------------------
(***************************************************************************)
(* A model of fetch_all_deepwiki.py: the sequential fetch / convert /      *)
(* clean / save loop of main(), the text clean-up of clean_markdown, and   *)
(* the file name derived from a page identifier.                            *)
(*                                                                         *)
(* Text is a sequence of one-character strings, so that the string         *)
(* operations of the program (re.sub, strip, startswith, replace, title)   *)
(* are computed character by character.                                    *)
(***************************************************************************)
EXTENDS Naturals, Sequences, FiniteSets

VARIABLES
  pc,             \* where main() stands
  i,              \* main: the loop counter of enumerate(PAGES, 1)
  page,           \* main: the identifier being processed
  converted,      \* fetch_page: what converter.handle returned (line 152)
  markdown,       \* main: what fetch_page returned (None on failure)
  success_count,  \* main: success_count
  failed_pages,   \* main: failed_pages
  files,          \* the output directory: file name -> content
  written,        \* the file names main wrote and closed in this run, in order
  requests,       \* the identifiers urlopen was called for in this run, in order
  sleeps,         \* the number of time.sleep(0.5) calls of this run
  summary,        \* the "Completed: ..." report, <<>> until printed
  errors,         \* the exceptions raised in this run: the identifier and the kind
  runs            \* how many times the program has been started

vars == <<pc, i, page, converted, markdown, success_count, failed_pages,
          files, written, requests, sleeps, summary, errors, runs>>

-----------------------------------------------------------------------------
(* Bounds of the model *)

\* main() is run over the slice PAGES[FirstPage .. FirstPage + NumPages - 1]
FirstPage == 49
NumPages == 3
\* the longest converted text given to clean_markdown on its own
MaxLen == 6
\* how many times the program is started over the same output directory
MaxRuns == 2

-----------------------------------------------------------------------------
(* Program constants *)

PAGES ==
  << <<"1","-","o","v","e","r","v","i","e","w">>,
     <<"2","-","c","o","r","e","-","a","r","c","h","i","t","e","c","t","u","r","e">>,
     <<"2",".","1","-","a","p","p","l","i","c","a","t","i","o","n","-","i","n","i","t","i","a","l","i","z","a","t","i","o","n","-","a","n","d","-","l","i","f","e","c","y","c","l","e">>,
     <<"2",".","2","-","g","p","u","i","-","f","r","a","m","e","w","o","r","k">>,
     <<"2",".","3","-","w","i","n","d","o","w","-","a","n","d","-","p","l","a","t","f","o","r","m","-","a","b","s","t","r","a","c","t","i","o","n">>,
     <<"2",".","4","-","e","v","e","n","t","-","f","l","o","w","-","a","n","d","-","i","n","p","u","t","-","h","a","n","d","l","i","n","g">>,
     <<"2",".","5","-","k","e","y","b","i","n","d","i","n","g","-","a","n","d","-","a","c","t","i","o","n","-","s","y","s","t","e","m">>,
     <<"2",".","6","-","f","o","c","u","s","-","m","a","n","a","g","e","m","e","n","t","-","a","n","d","-","h","i","t","-","t","e","s","t","i","n","g">>,
     <<"3","-","e","d","i","t","o","r","-","a","r","c","h","i","t","e","c","t","u","r","e">>,
     <<"3",".","1","-","e","d","i","t","o","r","-","c","o","m","p","o","n","e","n","t","-","a","n","d","-","u","i">>,
     <<"3",".","2","-","b","u","f","f","e","r","-","s","y","s","t","e","m","-","a","n","d","-","t","e","x","t","-","s","t","o","r","a","g","e">>,
     <<"3",".","3","-","d","i","s","p","l","a","y","-","p","i","p","e","l","i","n","e","-","a","n","d","-","r","e","n","d","e","r","i","n","g">>,
     <<"3",".","4","-","s","e","l","e","c","t","i","o","n","s","-","a","n","d","-","e","d","i","t","i","n","g","-","o","p","e","r","a","t","i","o","n","s">>,
     <<"3",".","5","-","c","o","d","e","-","i","n","t","e","l","l","i","g","e","n","c","e","-","i","n","t","e","g","r","a","t","i","o","n">>,
     <<"3",".","6","-","d","i","f","f","-","i","n","t","e","g","r","a","t","i","o","n">>,
     <<"4","-","w","o","r","k","s","p","a","c","e","-","a","n","d","-","p","a","n","e","l","-","s","y","s","t","e","m">>,
     <<"4",".","1","-","w","o","r","k","s","p","a","c","e","-","o","r","g","a","n","i","z","a","t","i","o","n">>,
     <<"4",".","2","-","i","t","e","m","-","s","y","s","t","e","m","-","a","n","d","-","l","i","f","e","c","y","c","l","e">>,
     <<"4",".","3","-","p","a","n","e","-","m","a","n","a","g","e","m","e","n","t">>,
     <<"4",".","4","-","s","e","a","r","c","h","-","s","y","s","t","e","m">>,
     <<"5","-","p","r","o","j","e","c","t","-","m","a","n","a","g","e","m","e","n","t">>,
     <<"5",".","1","-","p","r","o","j","e","c","t","-","o","r","c","h","e","s","t","r","a","t","i","o","n">>,
     <<"5",".","2","-","w","o","r","k","t","r","e","e","-","a","n","d","-","f","i","l","e","-","s","y","s","t","e","m">>,
     <<"5",".","3","-","b","u","f","f","e","r","-","s","t","o","r","e">>,
     <<"6","-","l","a","n","g","u","a","g","e","-","i","n","t","e","l","l","i","g","e","n","c","e">>,
     <<"6",".","1","-","l","s","p","-","s","t","o","r","e","-","a","r","c","h","i","t","e","c","t","u","r","e">>,
     <<"6",".","2","-","l","a","n","g","u","a","g","e","-","s","e","r","v","e","r","-","l","i","f","e","c","y","c","l","e">>,
     <<"6",".","3","-","c","o","m","p","l","e","t","i","o","n","s","-","a","n","d","-","d","i","a","g","n","o","s","t","i","c","s">>,
     <<"6",".","4","-","m","u","l","t","i","-","l","a","n","g","u","a","g","e","-","s","e","r","v","e","r","-","c","o","o","r","d","i","n","a","t","i","o","n">>,
     <<"7","-","s","e","t","t","i","n","g","s","-","a","n","d","-","c","o","n","f","i","g","u","r","a","t","i","o","n">>,
     <<"7",".","1","-","s","e","t","t","i","n","g","s","-","s","t","o","r","e","-","a","n","d","-","l","a","y","e","r","i","n","g">>,
     <<"7",".","2","-","s","e","t","t","i","n","g","s","-","u","i">>,
     <<"7",".","3","-","s","e","t","t","i","n","g","s","-","m","i","g","r","a","t","i","o","n">>,
     <<"7",".","4","-","k","e","y","m","a","p","-","s","y","s","t","e","m">>,
     <<"8","-","g","i","t","-","i","n","t","e","g","r","a","t","i","o","n">>,
     <<"8",".","1","-","g","i","t","-","p","a","n","e","l","-","a","n","d","-","u","i">>,
     <<"8",".","2","-","g","i","t","-","s","t","o","r","e","-","a","n","d","-","s","t","a","t","e","-","m","a","n","a","g","e","m","e","n","t">>,
     <<"8",".","3","-","r","e","p","o","s","i","t","o","r","y","-","o","p","e","r","a","t","i","o","n","s">>,
     <<"8",".","4","-","d","i","f","f","-","s","y","s","t","e","m">>,
     <<"9","-","t","e","r","m","i","n","a","l","-","a","n","d","-","t","a","s","k","-","e","x","e","c","u","t","i","o","n">>,
     <<"9",".","1","-","t","e","r","m","i","n","a","l","-","c","o","r","e">>,
     <<"9",".","2","-","t","e","r","m","i","n","a","l","-","v","i","e","w","-","a","n","d","-","r","e","n","d","e","r","i","n","g">>,
     <<"9",".","3","-","t","a","s","k","-","s","y","s","t","e","m">>,
     <<"1","0","-","v","i","m","-","m","o","d","e">>,
     <<"1","0",".","1","-","m","o","d","e","-","s","t","a","t","e","-","m","a","c","h","i","n","e">>,
     <<"1","0",".","2","-","o","p","e","r","a","t","o","r","s","-","m","o","t","i","o","n","s","-","a","n","d","-","o","b","j","e","c","t","s">>,
     <<"1","0",".","3","-","v","i","s","u","a","l","-","m","o","d","e">>,
     <<"1","0",".","4","-","h","e","l","i","x","-","m","o","d","e","-","i","n","t","e","g","r","a","t","i","o","n">>,
     <<"1","1","-","a","i","-","a","g","e","n","t","-","s","y","s","t","e","m">>,
     <<"1","1",".","1","-","a","g","e","n","t","-","c","o","m","m","u","n","i","c","a","t","i","o","n","-","p","r","o","t","o","c","o","l","-","(","a","c","p",")">>,
     <<"1","1",".","2","-","a","g","e","n","t","-","u","i","-","a","n","d","-","t","h","r","e","a","d","-","m","a","n","a","g","e","m","e","n","t">>,
     <<"1","1",".","3","-","a","g","e","n","t","-","c","o","n","n","e","c","t","i","o","n","-","a","n","d","-","i","m","p","l","e","m","e","n","t","a","t","i","o","n","s">>,
     <<"1","1",".","4","-","t","o","o","l","-","s","y","s","t","e","m">>,
     <<"1","1",".","5","-","m","e","n","t","i","o","n","-","s","y","s","t","e","m","-","a","n","d","-","c","o","n","t","e","x","t">>,
     <<"1","1",".","6","-","l","e","g","a","c","y","-","a","g","e","n","t","-","t","h","r","e","a","d","-","s","y","s","t","e","m">>,
     <<"1","2","-","r","e","m","o","t","e","-","d","e","v","e","l","o","p","m","e","n","t","-","a","n","d","-","c","o","l","l","a","b","o","r","a","t","i","o","n">>,
     <<"1","2",".","1","-","l","o","c","a","l","-","v","s","-","r","e","m","o","t","e","-","a","r","c","h","i","t","e","c","t","u","r","e">>,
     <<"1","2",".","2","-","r","e","m","o","t","e","-","p","r","o","j","e","c","t","-","a","r","c","h","i","t","e","c","t","u","r","e">>,
     <<"1","2",".","3","-","c","o","l","l","a","b","o","r","a","t","i","o","n","-","f","e","a","t","u","r","e","s">>,
     <<"1","2",".","4","-","c","r","d","t","-","a","n","d","-","s","y","n","c","h","r","o","n","i","z","a","t","i","o","n">> >>

BASE_URL ==
  <<"h","t","t","p","s",":","/","/","d","e","e","p","w","i","k","i",".","c","o","m","/","z","e","d","-","i","n","d","u","s","t","r","i","e","s","/","z","e","d">>

HeaderOpen == <<"<","!","-","-"," ","S","o","u","r","c","e",":"," ">>

HeaderClose == <<" ","-","-",">">>

MdExt == <<".","m","d">>

LowerCase == <<"a","b","c","d","e","f","g","h","i","j","k","l","m","n","o","p","q","r","s","t","u","v","w","x","y","z">>

UpperCase == <<"A","B","C","D","E","F","G","H","I","J","K","L","M","N","O","P","Q","R","S","T","U","V","W","X","Y","Z">>

\* the identifier of the end-to-end scenario, PAGES[3]
ScenarioPage == 3

\* re.sub(r'\n{4,}', ...): the shortest run of newlines that is replaced
MinRun == 4

NL == "\n"

\* what re.sub puts in place of the run
Replacement == <<NL, NL, NL>>

\* fetch_page's None; no text equals it, a text being a sequence of characters
None == <<"None">>

-----------------------------------------------------------------------------
(* Python's string operations *)

\* str.strip() removes these (the ASCII white space)
IsSpace(c) == c \in {" ", "\n", "\t", "\r"}

RECURSIVE LStrip(_)
LStrip(s) ==
  IF s = <<>> THEN s
  ELSE IF IsSpace(Head(s)) THEN LStrip(Tail(s)) ELSE s

RECURSIVE RStrip(_)
RStrip(s) ==
  IF s = <<>> THEN s
  ELSE IF IsSpace(s[Len(s)]) THEN RStrip(SubSeq(s, 1, Len(s) - 1)) ELSE s

Strip(s) == RStrip(LStrip(s))

StartsWith(s, c) == Len(s) > 0 /\ s[1] = c

\* str.replace for a single character
Replace(s, a, b) == [k \in 1..Len(s) |-> IF s[k] = a THEN b ELSE s[k]]

\* str.replace(c, '')
Remove(s, c) == SelectSeq(s, LAMBDA x : x # c)

IndexIn(t, c) == CHOOSE k \in 1..Len(t) : t[k] = c
IsLower(c) == \E k \in 1..Len(LowerCase) : LowerCase[k] = c
IsUpper(c) == \E k \in 1..Len(UpperCase) : UpperCase[k] = c
IsCased(c) == IsLower(c) \/ IsUpper(c)
ToUpper(c) == IF IsLower(c) THEN UpperCase[IndexIn(LowerCase, c)] ELSE c
ToLower(c) == IF IsUpper(c) THEN LowerCase[IndexIn(UpperCase, c)] ELSE c

\* str.title(): a cased character is upper-cased when the character before it
\* is not cased, and lower-cased otherwise
Title(s) ==
  [k \in 1..Len(s) |->
     IF k > 1 /\ IsCased(s[k - 1]) THEN ToLower(s[k]) ELSE ToUpper(s[k])]

\* the length of the run of newlines of s that starts at position k
RECURSIVE RunAt(_, _)
RunAt(s, k) ==
  IF k > Len(s) \/ s[k] # NL THEN 0 ELSE 1 + RunAt(s, k + 1)

\* re.sub(r'\n{4,}', '\n\n\n', s), from position k on: the match is greedy, so a
\* whole run of MinRun or more newlines is replaced at once
RECURSIVE SubFrom(_, _)
SubFrom(s, k) ==
  IF k > Len(s) THEN <<>>
  ELSE LET r == RunAt(s, k)
       IN  IF r >= MinRun THEN Replacement \o SubFrom(s, k + r)
           ELSE IF r > 0 THEN SubSeq(s, k, k + r - 1) \o SubFrom(s, k + r)
           ELSE <<s[k]>> \o SubFrom(s, k + 1)

\* re.sub left out: the text is kept as it is
ReSubNewlinesOff(s) == s

ReSubNewlines(s) == SubFrom(s, 1)

-----------------------------------------------------------------------------
(* clean_markdown *)

SourceUrl(page_name) == BASE_URL \o <<"/">> \o page_name

Header(page_name) == HeaderOpen \o SourceUrl(page_name) \o HeaderClose \o <<NL, NL>>

TitleLine(page_name) == <<"#", " ">> \o Title(Replace(page_name, "-", " "))

\* startswith('#') asked of the text as it is, not of the stripped text
clean_markdown_unstripped(markdown_text, page_name) ==
  LET collapsed == ReSubNewlines(markdown_text)
      titled == IF ~StartsWith(collapsed, "#")
                THEN TitleLine(page_name) \o <<NL, NL>> \o collapsed
                ELSE collapsed
  IN  Header(page_name) \o Strip(titled) \o <<NL>>

\* the text stripped and nothing added: no header, no title, no last newline
clean_markdown_bare(markdown_text, page_name) ==
  Strip(ReSubNewlines(markdown_text))

clean_markdown(markdown_text, page_name) ==
  LET collapsed == ReSubNewlines(markdown_text)
      titled == IF ~StartsWith(Strip(collapsed), "#")
                THEN TitleLine(page_name) \o <<NL, NL>> \o collapsed
                ELSE collapsed
  IN  Header(page_name) \o Strip(titled) \o <<NL>>

\* only the opening parenthesis removed
SanitizeOpenOnly(p) == Remove(p, "(")

\* main, line 181: page.replace('(', '').replace(')', '')
Sanitize(p) == Remove(Remove(p, "("), ")")

\* main, line 181
FileName(p) == Sanitize(p) \o MdExt

\* "if markdown:" : None and the empty string are false
Truthy(m) == m # None /\ m # <<>>

-----------------------------------------------------------------------------
(* Inputs *)

\* the identifiers main() iterates over
Pages == SubSeq(PAGES, FirstPage, FirstPage + NumPages - 1)

\* what the converter may return for a page in a run of main(): nothing, white
\* space only, a text that starts with a heading (clean_markdown is applied to
\* every text of Texts under SpecClean)
Bodies == { <<>>, <<" ", NL>>, <<"#", " ", "a">> }

\* every text of at most MaxLen characters over newline, space, '#' and a letter
Alphabet == {NL, " ", "#", "a"}
Texts == UNION { [1..n -> Alphabet] : n \in 0..MaxLen }

\* the identifiers clean_markdown is applied to on its own: the scenario's and
\* those with parentheses
ParenPages == { k \in 1..Len(PAGES) : \E j \in 1..Len(PAGES[k]) : PAGES[k][j] = "(" }
CleanPages == { PAGES[k] : k \in {ScenarioPage} \cup ParenPages }

-----------------------------------------------------------------------------
(* The output directory *)

NoFiles == [f \in {} |-> <<>>]

\* open(path, 'w') creates the file or truncates it; close() leaves the text
Put(dir, name, content) ==
  [f \in DOMAIN dir \cup {name} |-> IF f = name THEN content ELSE dir[f]]

-----------------------------------------------------------------------------
(* main() *)

Stopped == {"done", "crashed", "killed"}
Running == {"loop", "fetch", "fetched", "write", "count", "sleep"}

\* lines 167-177: the state in which the loop is entered
Fresh ==
  /\ pc = "loop"
  /\ i = 0
  /\ page = None
  /\ converted = None
  /\ markdown = None
  /\ success_count = 0
  /\ failed_pages = <<>>
  /\ written = <<>>
  /\ requests = <<>>
  /\ sleeps = 0
  /\ summary = <<>>
  /\ errors = <<>>

Init ==
  /\ Fresh
  /\ files = NoFiles
  /\ runs = 1

\* line 179: the loop takes the next identifier
NextPage ==
  /\ pc = "loop"
  /\ i < Len(Pages)
  /\ i' = i + 1
  /\ page' = Pages[i + 1]
  /\ pc' = "fetch"
  /\ UNCHANGED <<converted, markdown, success_count, failed_pages, files,
                 written, requests, sleeps, summary, errors, runs>>

\* fetch_page, lines 140-149 raising: the request, the read or the decoding
\* fails, the except clause returns None
FetchRetrievalError ==
  /\ pc = "fetch"
  /\ requests' = Append(requests, page)
  /\ converted' = None
  /\ markdown' = None
  /\ errors' = Append(errors, [page |-> page, kind |-> "retrieval"])
  /\ pc' = "fetched"
  /\ UNCHANGED <<i, page, success_count, failed_pages, files, written, sleeps,
                 summary, runs>>

\* fetch_page, lines 152-155 raising inside the same try: html is there, None
\* is returned
FetchConversionError ==
  /\ pc = "fetch"
  /\ requests' = Append(requests, page)
  /\ converted' = None
  /\ markdown' = None
  /\ errors' = Append(errors, [page |-> page, kind |-> "conversion"])
  /\ pc' = "fetched"
  /\ UNCHANGED <<i, page, success_count, failed_pages, files, written, sleeps,
                 summary, runs>>

\* fetch_page returning at line 157
FetchOk ==
  /\ pc = "fetch"
  /\ \E md \in Bodies :
       /\ converted' = md
       /\ markdown' = clean_markdown(md, page)
  /\ requests' = Append(requests, page)
  /\ pc' = "fetched"
  /\ UNCHANGED <<i, page, success_count, failed_pages, files, written, sleeps,
                 summary, errors, runs>>

\* lines 188-189: the text is truthy and open(output_path, 'w') creates or
\* truncates the file
OpenFile ==
  /\ pc = "fetched"
  /\ Truthy(markdown)
  /\ files' = Put(files, FileName(page), <<>>)
  /\ pc' = "write"
  /\ UNCHANGED <<i, page, converted, markdown, success_count, failed_pages,
                 written, requests, sleeps, summary, errors, runs>>

\* open() failing taken for a failure of the page
OpenFailsCaught ==
  /\ pc = "fetched"
  /\ Truthy(markdown)
  /\ errors' = Append(errors, [page |-> page, kind |-> "persistence"])
  /\ failed_pages' = Append(failed_pages, page)
  /\ pc' = "sleep"
  /\ UNCHANGED <<i, page, converted, markdown, success_count, files, written,
                 requests, sleeps, summary, runs>>

\* line 189 raising (OSError): nothing in main catches it
OpenFails ==
  /\ pc = "fetched"
  /\ Truthy(markdown)
  /\ errors' = Append(errors, [page |-> page, kind |-> "persistence"])
  /\ pc' = "crashed"
  /\ UNCHANGED <<i, page, converted, markdown, success_count, failed_pages,
                 files, written, requests, sleeps, summary, runs>>

\* a falsy result ends the run
RecordFailureAborts ==
  /\ pc = "fetched"
  /\ ~Truthy(markdown)
  /\ pc' = "crashed"
  /\ UNCHANGED <<i, page, converted, markdown, success_count, failed_pages,
                 files, written, requests, sleeps, summary, errors, runs>>

\* a falsy result has the page fetched again
RecordFailureRetries ==
  /\ pc = "fetched"
  /\ ~Truthy(markdown)
  /\ pc' = "fetch"
  /\ UNCHANGED <<i, page, converted, markdown, success_count, failed_pages,
                 files, written, requests, sleeps, summary, errors, runs>>

\* the delay taken on the success branch only
RecordFailureNoDelay ==
  /\ pc = "fetched"
  /\ ~Truthy(markdown)
  /\ failed_pages' = Append(failed_pages, page)
  /\ pc' = "loop"
  /\ UNCHANGED <<i, page, converted, markdown, success_count, files, written,
                 requests, sleeps, summary, errors, runs>>

\* lines 193-195: the result is falsy
RecordFailure ==
  /\ pc = "fetched"
  /\ ~Truthy(markdown)
  /\ failed_pages' = Append(failed_pages, page)
  /\ pc' = "sleep"
  /\ UNCHANGED <<i, page, converted, markdown, success_count, files, written,
                 requests, sleeps, summary, errors, runs>>

\* line 190 and the end of the with block: the text is written and the file closed
WriteFile ==
  /\ pc = "write"
  /\ files' = Put(files, FileName(page), markdown)
  /\ written' = Append(written, FileName(page))
  /\ pc' = "count"
  /\ UNCHANGED <<i, page, converted, markdown, success_count, failed_pages,
                 requests, sleeps, summary, errors, runs>>

\* line 190 or the closing flush raising (OSError): the file stays as open() left it
WriteFails ==
  /\ pc = "write"
  /\ errors' = Append(errors, [page |-> page, kind |-> "persistence"])
  /\ pc' = "crashed"
  /\ UNCHANGED <<i, page, converted, markdown, success_count, failed_pages,
                 files, written, requests, sleeps, summary, runs>>

\* the success not counted
CountSuccessSkipped ==
  /\ pc = "count"
  /\ pc' = "sleep"
  /\ UNCHANGED <<i, page, converted, markdown, success_count, failed_pages,
                 files, written, requests, sleeps, summary, errors, runs>>

\* lines 191-192
CountSuccess ==
  /\ pc = "count"
  /\ success_count' = success_count + 1
  /\ pc' = "sleep"
  /\ UNCHANGED <<i, page, converted, markdown, failed_pages, files, written,
                 requests, sleeps, summary, errors, runs>>

\* line 198
Sleep ==
  /\ pc = "sleep"
  /\ sleeps' = sleeps + 1
  /\ pc' = "loop"
  /\ UNCHANGED <<i, page, converted, markdown, success_count, failed_pages,
                 files, written, requests, summary, errors, runs>>

\* lines 200-208: the loop is over, the summary is printed
Summary ==
  /\ pc = "loop"
  /\ i = Len(Pages)
  /\ summary' = << [completed |-> success_count, total |-> Len(Pages),
                    failed |-> failed_pages] >>
  /\ pc' = "done"
  /\ UNCHANGED <<i, page, converted, markdown, success_count, failed_pages,
                 files, written, requests, sleeps, errors, runs>>

\* the process is terminated from outside: what is on disk stays as it is
Kill ==
  /\ pc \in Running
  /\ pc' = "killed"
  /\ UNCHANGED <<i, page, converted, markdown, success_count, failed_pages,
                 files, written, requests, sleeps, summary, errors, runs>>

\* the program is started again over the same output directory
Rerun ==
  /\ pc \in Stopped
  /\ runs < MaxRuns
  /\ runs' = runs + 1
  /\ pc' = "loop"
  /\ i' = 0
  /\ page' = None
  /\ converted' = None
  /\ markdown' = None
  /\ success_count' = 0
  /\ failed_pages' = <<>>
  /\ written' = <<>>
  /\ requests' = <<>>
  /\ sleeps' = 0
  /\ summary' = <<>>
  /\ errors' = <<>>
  /\ UNCHANGED files

Next ==
  \/ NextPage
  \/ FetchRetrievalError
  \/ FetchConversionError
  \/ FetchOk
  \/ OpenFile
  \/ OpenFails
  \/ RecordFailure
  \/ WriteFile
  \/ WriteFails
  \/ CountSuccess
  \/ Sleep
  \/ Summary
  \/ Kill
  \/ Rerun

Spec == Init /\ [][Next]_vars

-----------------------------------------------------------------------------
(* clean_markdown on its own, over every text of Texts *)

InitClean ==
  /\ pc = "clean_in"
  /\ i = 0
  /\ page \in CleanPages
  /\ converted \in Texts
  /\ markdown = None
  /\ success_count = 0
  /\ failed_pages = <<>>
  /\ written = <<>>
  /\ requests = <<>>
  /\ sleeps = 0
  /\ summary = <<>>
  /\ errors = <<>>
  /\ files = NoFiles
  /\ runs = 1

\* fetch_page, line 155
CleanMarkdown ==
  /\ pc = "clean_in"
  /\ markdown' = clean_markdown(converted, page)
  /\ pc' = "cleaned"
  /\ UNCHANGED <<i, page, converted, success_count, failed_pages, files,
                 written, requests, sleeps, summary, errors, runs>>

NextClean == CleanMarkdown

SpecClean == InitClean /\ [][NextClean]_vars

-----------------------------------------------------------------------------
(* Vocabulary of the properties *)

\* the title and the file name the end-to-end scenario expects for PAGES[3]
ScenarioTitle ==
  <<"2",".","1"," ","A","p","p","l","i","c","a","t","i","o","n"," ","I","n","i","t","i","a","l","i","z","a","t","i","o","n"," ","A","n","d"," ","L","i","f","e","c","y","c","l","e">>

ScenarioFile ==
  <<"2",".","1","-","a","p","p","l","i","c","a","t","i","o","n","-","i","n","i","t","i","a","l","i","z","a","t","i","o","n","-","a","n","d","-","l","i","f","e","c","y","c","l","e",".","m","d">>

InList(s, x) == \E k \in 1..Len(s) : s[k] = x

NoDuplicates(s) == \A a, b \in 1..Len(s) : s[a] = s[b] => a = b

\* s holds n newlines in a row somewhere
HasRun(s, n) ==
  \E k \in 1..(Len(s) + 1 - n) : \A j \in k..(k + n - 1) : s[j] = NL

NonNewline(s) == SelectSeq(s, LAMBDA c : c # NL)

RECURSIVE SplitLines(_)
SplitLines(s) ==
  IF \A k \in 1..Len(s) : s[k] # NL THEN <<s>>
  ELSE LET p == CHOOSE k \in 1..Len(s) : s[k] = NL /\ \A j \in 1..(k - 1) : s[j] # NL
       IN  <<SubSeq(s, 1, p - 1)>> \o SplitLines(SubSeq(s, p + 1, Len(s)))

IsBlank(l) == \A k \in 1..Len(l) : IsSpace(l[k])

NonBlankLines(s) == SelectSeq(SplitLines(s), LAMBDA l : ~IsBlank(l))

HasHeading(text) == StartsWith(Strip(text), "#")

ErrorFor(p, kinds) ==
  \E k \in 1..Len(errors) : errors[k].page = p /\ errors[k].kind \in kinds

\* the iteration of the k-th request is over
IterationOver(k) == k < i \/ (k = i /\ pc \in {"sleep", "loop", "done"})

\* the state machine of an identifier, read off the state of main()
Status(k) ==
  IF k > Len(requests) THEN "pending"
  ELSE IF InList(written, FileName(Pages[k])) THEN "persisted"
  ELSE IF InList(failed_pages, Pages[k]) \/ (k = i /\ markdown = None) THEN "failed"
  ELSE "fetched"

AllowedMoves ==
  { <<"pending", "fetched">>, <<"pending", "failed">>, <<"fetched", "persisted">> }

\* a file holds the whole cleaned text of its identifier
WholeFile(f) ==
  \E k \in 1..Len(Pages) : \E md \in Bodies :
     f = FileName(Pages[k]) /\ files[f] = clean_markdown(md, Pages[k])

-----------------------------------------------------------------------------
(* C1 *)

\* C1: a retrieval failure for one identifier does not abort the run: the
\* identifier is listed in failed_pages and not written or counted, the run
\* crashes only on a persistence error, and a run that reaches the summary has
\* requested every identifier and lists the failed one.
C1_RetrievalFailureDoesNotAbort ==
  /\ \A k \in 1..Len(errors) :
        errors[k].kind = "retrieval" =>
          LET p == errors[k].page
          IN  /\ ~InList(written, FileName(p))
              /\ InList(failed_pages, p) \/ (p = page /\ pc \in {"fetched", "killed"})
              /\ pc = "done" => InList(summary[1].failed, p)
  /\ success_count <= Len(written)
  /\ pc = "crashed" => (Len(errors) > 0 /\ errors[Len(errors)].kind = "persistence")
  /\ pc = "done" =>
        /\ requests = Pages
        /\ summary[1].completed = Len(Pages) - Len(summary[1].failed)

C1_Witness ==
  /\ pc = "done"
  /\ Len(errors) > 0
  /\ errors[1] = [page |-> Pages[1], kind |-> "retrieval"]
  /\ InList(written, FileName(Pages[2]))
  /\ success_count >= 1

-----------------------------------------------------------------------------
(* C2 *)

\* C2: after the k-th iteration success_count + len(failed_pages) = k, the
\* summary's successes plus its listed failures equal len(PAGES), and no
\* identifier is both written as a success and listed as failed.
C2_CountsAddUp ==
  /\ pc \in {"sleep", "loop", "done"} => success_count + Len(failed_pages) = i
  /\ pc = "done" =>
        /\ i = Len(Pages)
        /\ summary[1].total = Len(Pages)
        /\ summary[1].completed + Len(summary[1].failed) = summary[1].total
  /\ \A k \in 1..Len(failed_pages) : ~InList(written, FileName(failed_pages[k]))

C2_Witness ==
  /\ pc = "done"
  /\ success_count >= 1
  /\ Len(failed_pages) >= 1

-----------------------------------------------------------------------------
(* C3 *)

\* C3: once the program has stopped, however it stopped, every file of the
\* output directory holds the whole cleaned text of its identifier.
C3_NoPartialFile ==
  pc \in Stopped => \A f \in DOMAIN files : WholeFile(f)

-----------------------------------------------------------------------------
(* C4 *)

\* C4 as stated: a conversion or persistence error is not caught: the page is
\* not listed as failed, no later identifier is requested and no summary is
\* printed.
C4_Original ==
  \A k \in 1..Len(errors) :
     errors[k].kind \in {"conversion", "persistence"} =>
       /\ ~InList(failed_pages, errors[k].page)
       /\ requests[Len(requests)] = errors[k].page
       /\ summary = <<>>

\* C4 amended: retrieval and conversion errors are caught inside fetch_page and
\* make the identifier a failed one; a persistence error is not caught: it is
\* the last thing of the run, the run has crashed, no later identifier is
\* requested and no summary is printed.
C4_OnlyPersistenceErrorsPropagate ==
  /\ \A k \in 1..Len(errors) :
        LET p == errors[k].page
        IN  /\ errors[k].kind \in {"retrieval", "conversion"} =>
                 /\ InList(failed_pages, p) \/ (p = page /\ pc \in {"fetched", "killed"})
                 /\ pc = "done" => InList(summary[1].failed, p)
            /\ errors[k].kind = "persistence" =>
                 /\ k = Len(errors)
                 /\ pc = "crashed"
                 /\ ~InList(failed_pages, p)
                 /\ requests[Len(requests)] = p
                 /\ summary = <<>>
  /\ pc = "crashed" => (Len(errors) > 0 /\ errors[Len(errors)].kind = "persistence")

C4_Witness ==
  /\ pc = "crashed"
  /\ Len(errors) = 2
  /\ errors[1].kind = "conversion"
  /\ InList(failed_pages, errors[1].page)
  /\ errors[2].kind = "persistence"
  /\ Len(requests) = 2

-----------------------------------------------------------------------------
(* C5 *)

\* C5 as stated, for a text with a run of 4 or more newlines between two of
\* its characters: the output of clean_markdown has no run of more than 2
\* newlines and its non-newline content is that of the input.
C5_Original ==
  (pc = "cleaned" /\ HasRun(Strip(converted), MinRun)) =>
     /\ ~HasRun(markdown, 3)
     /\ NonNewline(markdown) = NonNewline(converted)

\* C5 amended: every run of 4 or more newlines is collapsed to exactly 3 and
\* shorter runs are kept; the output has no run of more than 3 newlines when
\* the text starts with a heading, and of more than 5 otherwise (the blank line
\* after the synthesized title comes before the newlines the text starts
\* with); its non-newline content is that of the source comment, then of the
\* title line if one is synthesized, then of the input without the white space
\* at its end and, when it starts with a heading, at its start.
C5_NewlineRunsCollapsed ==
  pc = "cleaned" =>
     /\ ~HasRun(ReSubNewlines(converted), MinRun)
     /\ HasRun(converted, MinRun) => HasRun(ReSubNewlines(converted), 3)
     /\ ~HasRun(converted, MinRun) => ReSubNewlines(converted) = converted
     /\ ~HasRun(markdown, 6)
     /\ HasHeading(converted) => ~HasRun(markdown, MinRun)
     /\ NonNewline(markdown) =
          NonNewline(Header(page))
            \o (IF HasHeading(converted)
                THEN NonNewline(Strip(converted))
                ELSE TitleLine(page) \o NonNewline(RStrip(converted)))

C5_Witness ==
  /\ pc = "cleaned"
  /\ HasRun(converted, MinRun + 1)
  /\ HasRun(markdown, 5)
  /\ converted[Len(converted)] = "a"

-----------------------------------------------------------------------------
(* C6 *)

\* C6: the first non-blank line of the output is the source comment; when the
\* stripped text starts with '#' no title is added and the second non-blank
\* line is the text's own first line; otherwise exactly one title line, made
\* from the identifier with '-' replaced by spaces and title-cased, is added
\* and is the second non-blank line.
C6_TitleOnlyWhenNoHeading ==
  pc = "cleaned" =>
     LET lines == NonBlankLines(markdown)
         own == NonBlankLines(converted)
     IN  /\ Len(lines) >= 2
         /\ lines[1] = HeaderOpen \o BASE_URL \o <<"/">> \o page \o HeaderClose
         /\ StartsWith(lines[2], "#")
         /\ HasHeading(converted) =>
              /\ Len(lines) = 1 + Len(own)
              /\ lines[2] = NonBlankLines(Strip(converted))[1]
         /\ ~HasHeading(converted) =>
              /\ Len(lines) = 2 + Len(own)
              /\ lines[2] = TitleLine(page)
              /\ \A k \in 1..Len(own) : own[k] # TitleLine(page)
         /\ page = PAGES[ScenarioPage] =>
              TitleLine(page) = <<"#", " ">> \o ScenarioTitle

C6_Witness ==
  /\ pc = "cleaned"
  /\ page = PAGES[ScenarioPage]
  /\ converted = <<" ", "a", NL, "a">>
  /\ NonBlankLines(markdown)[2] = <<"#", " ">> \o ScenarioTitle

-----------------------------------------------------------------------------
(* C7 *)

C7_Inv ==
  /\ requests = SubSeq(Pages, 1, Len(requests))
  /\ Len(requests) \in {i - 1, i}
  /\ pc = "fetch" => Len(requests) = i - 1
  /\ pc \in {"fetched", "write", "count", "sleep", "loop", "done"} => Len(requests) = i
  /\ NoDuplicates(requests)
  /\ pc = "done" =>
        /\ requests = Pages
        /\ \A k \in 1..Len(Pages) : Status(k) \in {"failed", "persisted"}

C7_Step ==
  runs' = runs =>
    \A k \in 1..Len(Pages) :
       \/ Status(k)' = Status(k)
       \/ <<Status(k), Status(k)'>> \in AllowedMoves

\* C7: the identifiers are requested once each, in list order; within a run an
\* identifier only goes pending -> fetched or failed and fetched -> persisted,
\* and a run that reaches the summary has requested every one.
C7_EachIdentifierOnce == []C7_Inv /\ [][C7_Step]_vars

C7_Witness ==
  /\ pc = "done"
  /\ Status(1) = "failed"
  /\ Status(2) = "persisted"
  /\ Len(requests) = Len(Pages)

-----------------------------------------------------------------------------
(* C8 *)

\* C8: one delay follows every iteration, failed or not: the k-th request is
\* made after exactly k - 1 delays.
C8_DelayAfterEveryIteration ==
  /\ pc \in {"fetch", "fetched", "write", "count", "sleep"} => sleeps = i - 1
  /\ pc \in {"loop", "done"} => sleeps = i
  /\ sleeps <= Len(requests)
  /\ Len(requests) <= sleeps + 1

C8_Witness ==
  /\ pc = "fetched"
  /\ i = 3
  /\ sleeps = 2
  /\ Len(failed_pages) = 1
  /\ success_count = 1

-----------------------------------------------------------------------------
(* C9 *)

ParenCount(p) == Len(SelectSeq(p, LAMBDA c : c \in {"(", ")"}))

\* over the whole of PAGES: the name has no parenthesis, is the identifier
\* itself plus ".md" when the identifier has none, Sanitize is idempotent and
\* no two identifiers share a name
FileNamesOfPAGES ==
  /\ \A k \in 1..Len(PAGES) :
        LET p == PAGES[k]
            f == FileName(p)
        IN  /\ \A j \in 1..Len(f) : f[j] \notin {"(", ")"}
            /\ Len(f) = Len(p) - ParenCount(p) + Len(MdExt)
            /\ SubSeq(f, Len(f) - Len(MdExt) + 1, Len(f)) = MdExt
            /\ ParenCount(p) = 0 => f = p \o MdExt
            /\ Sanitize(Sanitize(p)) = Sanitize(p)
  /\ \A a, b \in 1..Len(PAGES) : FileName(PAGES[a]) = FileName(PAGES[b]) => a = b
  /\ FileName(PAGES[ScenarioPage]) = ScenarioFile

\* C9: the file name is the identifier without '(' and ')' plus ".md",
\* idempotent and injective over PAGES; within a run no file is written twice
\* and, at the end of every iteration, the files written are as many as
\* success_count.
C9_OneFilePerSuccess ==
  /\ FileNamesOfPAGES
  /\ NoDuplicates(written)
  /\ \A k \in 1..Len(written) : written[k] \in DOMAIN files
  /\ pc \in {"sleep", "loop", "done"} => Len(written) = success_count
  /\ pc = "count" => written[Len(written)] = FileName(page)

C9_Witness ==
  /\ pc = "done"
  /\ runs = 1
  /\ success_count = Len(Pages)
  /\ Cardinality(DOMAIN files) = Len(Pages)
  /\ \E k \in 1..Len(Pages) : ParenCount(Pages[k]) > 0

-----------------------------------------------------------------------------
(* C10 *)

\* C10 as stated: every identifier whose retrieval succeeded is, once its
\* iteration is over, written and not listed as failed.
C10_Original ==
  \A k \in 1..Len(requests) :
     (IterationOver(k) /\ ~ErrorFor(requests[k], {"retrieval"})) =>
        /\ InList(written, FileName(requests[k]))
        /\ ~InList(failed_pages, requests[k])

\* C10 amended: what fetch_page returns at line 157 is never empty, so it is
\* truthy also for an empty or white-space-only conversion; every identifier
\* for which no exception was raised (retrieval, conversion or persistence) is,
\* once its iteration is over, written to its file, counted, and not listed as
\* failed.
C10_ReturnedTextIsPersisted ==
  /\ (pc \in {"fetched", "write", "count", "sleep"} /\ converted # None) =>
        /\ Truthy(markdown)
        /\ ~InList(failed_pages, page)
  /\ (pc = "sleep" /\ converted # None) =>
        /\ files[FileName(page)] = markdown
        /\ success_count = Len(written)
  /\ \A k \in 1..Len(requests) :
        (IterationOver(k)
           /\ ~ErrorFor(requests[k], {"retrieval", "conversion", "persistence"})) =>
           /\ InList(written, FileName(requests[k]))
           /\ ~InList(failed_pages, requests[k])

C10_Witness ==
  /\ pc = "sleep"
  /\ converted = <<>>
  /\ InList(written, FileName(page))
  /\ success_count = 1
  /\ failed_pages = <<>>

=============================================================================
